---- MODULE Spec2Model ----
(***************************************************************************)
(* Frame alignment and sampling engine of vsesnap.                         *)
(*                                                                         *)
(* The model follows screenshot_engine.take_screenshots_enhanced_with_     *)
(* frames step by step (frame-set selection, per-source load, per-frame    *)
(* alignment and tolerance window, per-candidate capture) together with    *)
(* its caller VSEScreenshotApp.start_screenshot and the history            *)
(* reconstruction of VSEScreenshotApp.scan_screenshot_folders.  The pure   *)
(* operations are also applied to drawn inputs (SpecPure), and the calls   *)
(* of ProjectManager act on its two directories (SpecProjects).            *)
(*                                                                         *)
(* Frame rates are exact rationals <<num, den>>; the source computes with  *)
(* IEEE doubles, whose rounding is not modelled.                           *)
(***************************************************************************)
EXTENDS Integers, Sequences, FiniteSets, TLC

\* ------------------------------------------------------------------ bounds
MaxVideos == 2
MaxRuns == 2
MaxCount == 2
MaxClock == 1

\* ------------------------------------------------------------- arithmetic
Abs(x) == IF x < 0 THEN -x ELSE x

Max(a, b) == IF a >= b THEN a ELSE b

Min(a, b) == IF a <= b THEN a ELSE b

\* Python int(a / b) on exact values: truncation toward zero.
TruncDiv(a, b) ==
  IF (a >= 0) = (b > 0) THEN Abs(a) \div Abs(b) ELSE -(Abs(a) \div Abs(b))

\* sorted(S) for a finite set of integers.
RECURSIVE Sorted(_)
Sorted(S) ==
  IF S = {} THEN <<>>
  ELSE LET m == CHOOSE x \in S : \A y \in S : x <= y
       IN <<m>> \o Sorted(S \ {m})

Range(s) == {s[n] : n \in DOMAIN s}

Reverse(s) == [n \in 1..Len(s) |-> s[Len(s) + 1 - n]]

IsStrictlyAscending(s) == \A n \in 1..(Len(s) - 1) : s[n] < s[n + 1]

\* ------------------------------------------------------------ frame rates
\* A frame rate is the rational num/den: "23.976" is <<23976, 1000>>.
Fps(num, den) == <<num, den>>

\* ratio = video_fps / screenshot_fps, as the pair <<numerator, denominator>>.
Ratio(video_fps, screenshot_fps) ==
  <<video_fps[1] * screenshot_fps[2], video_fps[2] * screenshot_fps[1]>>

\* need_fps_conversion = abs(ratio - 1.0) > 0.01
NeedFpsConversion(ratio) ==
  100 * Abs(ratio[1] - ratio[2]) > Abs(ratio[2])

\* ------------------------------------------------------- alignment, window
BaseFrame_OffsetScaled(aligned_frame, ratio, offset) ==
  IF NeedFpsConversion(ratio)
  THEN TruncDiv((aligned_frame + offset) * ratio[1], ratio[2])
  ELSE aligned_frame + offset

\* base_frame of one reference frame for one source (both branches).
BaseFrame(aligned_frame, ratio, offset) ==
  IF NeedFpsConversion(ratio)
  THEN TruncDiv(aligned_frame * ratio[1], ratio[2]) + offset
  ELSE aligned_frame + offset

FramesToCapture_Descending(base_frame, video_tolerance, video_total_frames) ==
  SelectSeq([n \in 1..(2 * video_tolerance + 1) |->
               base_frame + video_tolerance - n + 1],
            LAMBDA f : 0 <= f /\ f < video_total_frames)

FramesToCapture_Inclusive(base_frame, video_tolerance, video_total_frames) ==
  SelectSeq([n \in 1..(2 * video_tolerance + 1) |->
               base_frame - video_tolerance + n - 1],
            LAMBDA f : 0 <= f /\ f <= video_total_frames)

FramesToCapture_Unfiltered(base_frame, video_tolerance, video_total_frames) ==
  [n \in 1..(2 * video_tolerance + 1) |-> base_frame - video_tolerance + n - 1]

\* frames_to_capture: for offset in range(-tol, tol + 1), kept when inside
\* [0, video_total_frames).
FramesToCapture(base_frame, video_tolerance, video_total_frames) ==
  SelectSeq([n \in 1..(2 * video_tolerance + 1) |->
               base_frame - video_tolerance + n - 1],
            LAMBDA f : 0 <= f /\ f < video_total_frames)

\* ------------------------------------------------------- frame-set range
StartFrame_Unclamped(frame_range_start) == frame_range_start

StartFrame(frame_range_start) == Max(0, frame_range_start)

EndFrame(frame_range_end, total_frames) ==
  Min(IF frame_range_end > 0 THEN frame_range_end ELSE total_frames,
      total_frames)

\* The possible values of sorted(random.sample(range(start, end), count)).
SampleSorted(start_frame, end_frame, count) ==
  {Sorted(S) : S \in {T \in SUBSET (start_frame..(end_frame - 1)) :
                        Cardinality(T) = count}}

AdjustedCount_OffByOne(count, available_frames) ==
  IF count >= available_frames THEN available_frames - 1 ELSE count

\* count after lines 592-595.
AdjustedCount(count, available_frames) ==
  IF count > available_frames THEN available_frames ELSE count

GenerateStatus_Strict(total_frames, count, frame_range_start, frame_range_end) ==
  LET start_frame == StartFrame(frame_range_start)
      end_frame == EndFrame(frame_range_end, total_frames)
  IN IF start_frame > end_frame THEN "range_invalid"
     ELSE IF AdjustedCount(count, end_frame - start_frame) < 0 THEN "raised"
     ELSE "ok"

\* How lines 583-598 end: the range is rejected, random.sample raises
\* ValueError on a negative count, or a frame set is drawn.
GenerateStatus(total_frames, count, frame_range_start, frame_range_end) ==
  LET start_frame == StartFrame(frame_range_start)
      end_frame == EndFrame(frame_range_end, total_frames)
  IN IF start_frame >= end_frame THEN "range_invalid"
     ELSE IF AdjustedCount(count, end_frame - start_frame) < 0 THEN "raised"
     ELSE "ok"

\* The frame sets lines 583-598 can produce.
GeneratedFrameNumbers(total_frames, count, frame_range_start, frame_range_end) ==
  LET start_frame == StartFrame(frame_range_start)
      end_frame == EndFrame(frame_range_end, total_frames)
  IN IF GenerateStatus(total_frames, count, frame_range_start,
                       frame_range_end) = "ok"
     THEN SampleSorted(start_frame, end_frame,
                       AdjustedCount(count, end_frame - start_frame))
     ELSE {}

\* generate_frame_numbers(total_frames, count, offset) of the older entry
\* points: its status and its possible results.
LegacyGenerateStatus(total_frames, count, offset) ==
  IF total_frames - offset > 0 /\ count < 0 THEN "raised" ELSE "ok"

generate_frame_numbers(total_frames, count, offset) ==
  LET available_frames == total_frames - offset
  IN IF available_frames <= 0 THEN {<<>>}
     ELSE IF count >= available_frames
     THEN {[n \in 1..available_frames |-> n - 1]}
     ELSE IF count < 0 THEN {}
     ELSE SampleSorted(0, available_frames, count)

\* The index take_screenshots, take_specific_screenshots and the non-PAL branch
\* of take_screenshots_enhanced pass to clip.get_frame for one frame number:
\* frame + video.offset, skipped with a warning only when it is not below
\* total_frames.
LegacyRequest(frame_num, offset, total_frames) ==
  LET actual_frame == frame_num + offset
  IN IF actual_frame >= total_frames THEN <<>> ELSE <<actual_frame>>

\* ---------------------------------------------------------------- filenames
\* File and source names are sequences of one-character strings.
DigitChars == <<"0", "1", "2", "3", "4", "5", "6", "7", "8", "9">>

RECURSIVE Digits(_)
Digits(n) ==
  IF n < 10 THEN <<DigitChars[n + 1]>>
  ELSE Digits(n \div 10) \o <<DigitChars[(n % 10) + 1]>>

ZeroPad(s, width) ==
  IF Len(s) >= width THEN s ELSE [n \in 1..(width - Len(s)) |-> "0"] \o s

\* f"{n:06d}"
Format06d(n) ==
  IF n >= 0 THEN ZeroPad(Digits(n), 6) ELSE <<"-">> \o ZeroPad(Digits(-n), 5)

\* os.path.splitext(filename)[0] for a name without directory separators:
\* cut at the last dot unless only dots precede it.
SplitExtRoot(filename) ==
  LET dots == {n \in DOMAIN filename : filename[n] = "."}
  IN IF dots = {} THEN filename
     ELSE LET dotIndex == CHOOSE n \in dots : \A m \in dots : m <= n
          IN IF \E n \in 1..(dotIndex - 1) : filename[n] # "."
             THEN SubSeq(filename, 1, dotIndex - 1)
             ELSE filename

IllegalChars == {"<", ">", ":", "\"", "/", "\\", "|", "?", "*"}

sanitize_filename(filename) ==
  LET name_without_ext == SplitExtRoot(filename)
  IN [n \in DOMAIN name_without_ext |->
        IF name_without_ext[n] \in IllegalChars THEN "_"
        ELSE name_without_ext[n]]

PngExt == <<".", "p", "n", "g">>

\* f"{aligned_frame:06d}_{original_frame:06d}_{safe_name}.png"
ScreenshotFilename(aligned_frame, original_frame, video_name) ==
  Format06d(aligned_frame) \o <<"_">> \o Format06d(original_frame)
    \o <<"_">> \o sanitize_filename(video_name) \o PngExt

\* filename.endswith('.png')
EndsWithPng(filename) ==
  /\ Len(filename) >= Len(PngExt)
  /\ SubSeq(filename, Len(filename) - Len(PngExt) + 1, Len(filename)) = PngExt

\* filename.split(sep)
RECURSIVE Split(_, _)
Split(s, sep) ==
  LET hits == {n \in DOMAIN s : s[n] = sep}
  IN IF hits = {} THEN <<s>>
     ELSE LET p == CHOOSE n \in hits : \A m \in hits : n <= m
          IN <<SubSeq(s, 1, p - 1)>> \o Split(SubSeq(s, p + 1, Len(s)), sep)

DigitValue(c) == CHOOSE d \in 0..9 : DigitChars[d + 1] = c

RECURSIVE DigitsValue(_)
DigitsValue(s) ==
  IF s = <<>> THEN 0
  ELSE 10 * DigitsValue(SubSeq(s, 1, Len(s) - 1)) + DigitValue(s[Len(s)])

\* int(text): {value}, or {} where Python raises ValueError.  An optional
\* sign followed by one or more decimal digits.
ParseInt(text) ==
  LET signed == text # <<>> /\ text[1] \in {"-", "+"}
      body == IF signed THEN Tail(text) ELSE text
  IN IF body = <<>> \/ \E n \in DOMAIN body : body[n] \notin Range(DigitChars)
     THEN {}
     ELSE {IF signed /\ text[1] = "-" THEN -DigitsValue(body)
           ELSE DigitsValue(body)}

ScanFilename_SourceFrame(filename) ==
  IF EndsWithPng(filename)
  THEN LET parts == Split(filename, "_")
       IN IF Len(parts) >= 2 THEN ParseInt(parts[2]) ELSE {}
  ELSE {}

\* The aligned frames one file contributes to frame_numbers in
\* scan_screenshot_folders.
ScanFilename(filename) ==
  IF EndsWithPng(filename)
  THEN LET parts == Split(filename, "_")
       IN IF Len(parts) >= 2 THEN ParseInt(parts[1]) ELSE {}
  ELSE {}

\* frame_numbers after the loop over os.listdir(folder_path), in listing order.
RECURSIVE ScanListing(_)
ScanListing(listing) ==
  IF listing = <<>> THEN {}
  ELSE ScanListing(SubSeq(listing, 1, Len(listing) - 1))
         \cup ScanFilename(listing[Len(listing)])

\* ------------------------------------------------------------------ inputs
\* apply_fps_conversion on the frame count, for the two fps_type values of
\* the catalog: SelectEvery(cycle=5, offsets=[0,1,2,3]) keeps four frames of
\* every five; a native type leaves the clip alone.
ApplyFpsConversion(num_frames, fps_type) ==
  IF fps_type = "PAL2NTSC"
  THEN 4 * (num_frames \div 5) + Min(num_frames % 5, 4)
  ELSE num_frames

\* video.video_fps == "" (falsy): the rate is read from the clip.
EmptyFps == <<0, 0>>

DefaultVideoFps == Fps(25, 1)

\* The VideoEntry rows a user can set up, each with the decoder's view of
\* its file: whether it opens, its frame count, its native rate and the
\* frames whose decoding fails.
VideoCatalog ==
  { [name |-> <<"A">>, offset |-> 1, tolerance |-> 1,
     video_fps |-> Fps(23976, 1000), screenshot_fps |-> Fps(24, 1),
     fps_type |-> "native", openable |-> TRUE, num_frames |-> 3,
     clip_fps |-> Fps(24000, 1001), corrupt |-> {1}],
    [name |-> <<"B", "?", ".", "t">>, offset |-> -2, tolerance |-> 0,
     video_fps |-> EmptyFps, screenshot_fps |-> Fps(25, 1),
     fps_type |-> "PAL2NTSC", openable |-> TRUE, num_frames |-> 5,
     clip_fps |-> Fps(30000, 1001), corrupt |-> {1}],
    [name |-> <<"C">>, offset |-> 0, tolerance |-> 1,
     video_fps |-> Fps(25, 1), screenshot_fps |-> Fps(25, 1),
     fps_type |-> "native", openable |-> FALSE, num_frames |-> 0,
     clip_fps |-> Fps(25, 1), corrupt |-> {}] }

\* The (frame_range_start, frame_range_end) pairs typed into the range entries.
RangeInputs == {<<0, 0>>, <<3, 0>>}

\* The values typed into the screenshot count entry.
CountInputs == (-1)..MaxCount

\* ------------------------------------------------------------------- state
VARIABLES
  videos,              \* self.videos (every row ticked for screenshots)
  screenshot_history,  \* self.screenshot_history
  history_combo,       \* the value shown by the history selector
  combo_values,        \* the values the history selector offers
  config,              \* the project's config.json
  fs,                  \* the project's screenshots directory: folder -> listing
  clock,               \* the last reading of the wall clock, in seconds
  runs,                \* sampling runs started so far
  pc,                  \* position of the current start_screenshot call
  gui_frame_numbers,   \* start_screenshot's local frame_numbers
  requested_count,     \* start_screenshot's local count
  count,               \* the engine's count
  frame_range_start, frame_range_end, output_dir,
  frame_numbers,       \* the engine's frame_numbers
  i, j,                \* positions in videos and frame_numbers
  video_total_frames, ratio, frames_to_capture, screenshot_count,
  log,                 \* the messages passed to log_callback during the run
  tasks,               \* the clip.get_frame requests of the run, in order
  opens,               \* the load_video_clip calls of the run, in order
  ret,                 \* the engine's return value
  written,             \* <<folder, aligned frame>> of every file saved so far
  probe,               \* one application of the engine's arithmetic to inputs
  projects_dir,        \* ProjectManager.projects_dir: directory -> config.json
  screenshots_dir,     \* ProjectManager.screenshots_dir: directory -> run folders
  pm_call              \* the last ProjectManager call: arguments and result

guiVars == <<videos, screenshot_history, history_combo, combo_values, config>>

callVars == <<gui_frame_numbers, requested_count, count, frame_range_start,
              frame_range_end, output_dir>>

loopVars == <<i, j, video_total_frames, ratio, frames_to_capture,
              screenshot_count>>

mainVars == <<videos, screenshot_history, history_combo, combo_values, config,
              fs, clock, runs, pc, gui_frame_numbers, requested_count, count,
              frame_range_start, frame_range_end, output_dir, frame_numbers,
              i, j, video_total_frames, ratio, frames_to_capture,
              screenshot_count, log, tasks, opens, ret, written,
              projects_dir, screenshots_dir, pm_call>>

pmVars == <<projects_dir, screenshots_dir, pm_call>>

vars == <<videos, screenshot_history, history_combo, combo_values, config,
          fs, clock, runs, pc, gui_frame_numbers, requested_count, count,
          frame_range_start, frame_range_end, output_dir, frame_numbers, i, j,
          video_total_frames, ratio, frames_to_capture, screenshot_count,
          log, tasks, opens, ret, written, probe, projects_dir,
          screenshots_dir, pm_call>>

\* frame_numbers = None
NoneFrames == <<-1>>

\* The selector's "new" item, and the name f"{label} ({count})" of an entry.
HistoryName(label, n) == [label |-> label, count |-> n]

NewName == HistoryName(-1, 0)

\* An entry without a 'folder' key.
NoFolder == -1

LogEntry(kind, a, b) == [kind |-> kind, a |-> a, b |-> b]

NoRatio == <<0, 0>>

\* ------------------------------------------------------- project manager
\* Project names a caller passes: two plain names and one with a character
\* that create_project replaces.
ProjectNames == {<<"p">>, <<"q">>, <<"p", ".">>}

\* datetime.now().strftime('%Y%m%d_%H%M%S') at the instant of the calls.
Timestamp == <<"0">>

\* The characters c of the names with c.isalnum().
AlnumChars == Range(DigitChars) \cup {"p", "q"}

\* str.strip() for the blank.
RECURSIVE Strip(_)
Strip(s) ==
  IF s = <<>> THEN s
  ELSE IF Head(s) = " " THEN Strip(Tail(s))
  ELSE IF s[Len(s)] = " " THEN Strip(SubSeq(s, 1, Len(s) - 1))
  ELSE s

\* safe_name of create_project and rename_project.
SafeName(project_name) ==
  Strip([n \in DOMAIN project_name |->
           IF project_name[n] \in AlnumChars \cup {" ", "_", "-"}
           THEN project_name[n] ELSE "_"])

\* The directory name create_project settles on: the safe name, a generated
\* one when that is empty, with the timestamp appended when it exists.
CreatedName(dirs, project_name) ==
  LET safe_name == SafeName(project_name)
      named == IF safe_name = <<>>
               THEN <<"p", "r", "o", "j", "e", "c", "t", "_">> \o Timestamp
               ELSE safe_name
  IN IF named \in DOMAIN dirs THEN named \o <<"_">> \o Timestamp ELSE named

\* No 'modified' key.
NoModified == <<>>

\* default_config of create_project; screenshot_count stands for the keys
\* the caller owns.
DefaultConfig(project_name) ==
  [program_name |-> project_name, screenshot_count |-> 10,
   modified |-> NoModified]

\* The values a caller stores under screenshot_count.
ScreenshotCounts == {5, 10}

\* os.makedirs(dir, exist_ok=True) in the screenshots directory.
EnsureDir(dirs, dir) ==
  [d \in DOMAIN dirs \cup {dir} |-> IF d \in DOMAIN dirs THEN dirs[d] ELSE {}]

\* json.dump(config, config.json) in the directory `dir`.
WriteConfig(dirs, dir, project_config) ==
  [d \in DOMAIN dirs \cup {dir} |-> IF d = dir THEN project_config ELSE dirs[d]]

\* load_project's None, and its config with the two internal keys.
NoResult ==
  [program_name |-> <<>>, screenshot_count |-> 0, modified |-> NoModified,
   project_name |-> <<>>, project_path |-> <<>>]

LoadedConfig(dirs, project_name) ==
  [program_name |-> dirs[project_name].program_name,
   screenshot_count |-> dirs[project_name].screenshot_count,
   modified |-> dirs[project_name].modified,
   project_name |-> project_name, project_path |-> project_name]

\* Before any call.
NoCall ==
  [op |-> "none", name |-> <<>>, new_name |-> <<>>,
   config |-> DefaultConfig(<<>>), ok |-> FALSE, result |-> NoResult,
   calls |-> 0]

\* The calls made of one ProjectManager.
MaxCalls == 4

\* The probe before any input is drawn.
NoProbe ==
  [op |-> "none", aligned_frame |-> 0, video_fps |-> NoRatio,
   screenshot_fps |-> NoRatio, offset |-> 0, tolerance |-> 0,
   total_frames |-> 0, count |-> 0, frame_range_start |-> 0,
   frame_range_end |-> 0, status |-> "", base_frame |-> 0, out |-> <<>>,
   alignment_mode |-> "none", names |-> <<>>, listing |-> <<>>]

MainInit ==
  /\ videos = <<>>
  /\ screenshot_history = <<>>
  /\ history_combo = NewName
  /\ combo_values = {NewName}
  /\ config = [screenshot_history |-> <<>>, videos |-> <<>>]
  /\ fs = [d \in {} |-> <<>>]
  /\ clock = 0
  /\ runs = 0
  /\ pc = "idle"
  /\ gui_frame_numbers = NoneFrames
  /\ requested_count = 0
  /\ count = 0
  /\ frame_range_start = 0
  /\ frame_range_end = 0
  /\ output_dir = 0
  /\ frame_numbers = NoneFrames
  /\ i = 0
  /\ j = 0
  /\ video_total_frames = 0
  /\ ratio = NoRatio
  /\ frames_to_capture = <<>>
  /\ screenshot_count = 0
  /\ log = <<>>
  /\ tasks = <<>>
  /\ opens = <<>>
  /\ ret = NoneFrames
  /\ written = {}
  /\ projects_dir = [d \in {} |-> DefaultConfig(<<>>)]
  /\ screenshots_dir = [d \in {} |-> {}]
  /\ pm_call = NoCall

Init == MainInit /\ probe = NoProbe

\* ----------------------------------------------------------- GUI operations
\* add_videos: one file is added as a new row.  The rows are set up before
\* the first sampling run.
AddVideo ==
  /\ pc = "idle"
  /\ runs = 0
  /\ Len(videos) < MaxVideos
  /\ \E v \in VideoCatalog : videos' = Append(videos, v)
  /\ UNCHANGED <<screenshot_history, history_combo, combo_values, config, fs,
                 clock, runs, pc, callVars, frame_numbers, loopVars, log,
                 tasks, opens, ret, written, probe,
                 pmVars>>

\* The user picks an item of the history selector.
SelectHistory ==
  /\ pc = "idle"
  /\ \E name \in combo_values \ {history_combo} : history_combo' = name
  /\ UNCHANGED <<videos, screenshot_history, combo_values, config, fs, clock,
                 runs, pc, callVars, frame_numbers, loopVars, log, tasks,
                 opens, ret, written, probe,
                 pmVars>>

\* os.makedirs(output_dir, exist_ok=True)
MakeDirs(files, dir) ==
  [d \in DOMAIN files \cup {dir} |->
     IF d \in DOMAIN files THEN files[d] ELSE <<>>]

\* img.save(filepath): a new directory entry unless the file exists.
SaveFile(files, dir, filename) ==
  [files EXCEPT ![dir] =
     IF filename \in Range(@) THEN @ ELSE Append(@, filename)]

PickedFrames_ByTimestamp(history, use_history) ==
  LET hits == {n \in DOMAIN history :
                 history[n].name.label = use_history.label}
  IN IF use_history # NewName /\ hits # {}
     THEN history[CHOOSE n \in hits : \A m \in hits : n <= m].frames
     ELSE NoneFrames

\* Lines 1366-1376: the frames of the first entry named like the selector's
\* value, or None for the "new" item or a name no entry has.
PickedFrames(history, use_history) ==
  LET hits == {n \in DOMAIN history : history[n].name = use_history}
  IN IF use_history # NewName /\ hits # {}
     THEN history[CHOOSE n \in hits : \A m \in hits : n <= m].frames
     ELSE NoneFrames

\* start_screenshot up to the engine's frame-set selection.
StartScreenshot ==
  /\ pc = "idle"
  /\ runs < MaxRuns
  /\ videos # <<>>
  /\ \E range \in RangeInputs, c \in CountInputs :
       LET picked == PickedFrames(screenshot_history, history_combo)
       IN /\ gui_frame_numbers' = picked
          /\ frame_numbers' = picked
          /\ requested_count' = IF picked = NoneFrames THEN c ELSE Len(picked)
          /\ count' = IF picked = NoneFrames THEN c ELSE Len(picked)
          /\ frame_range_start' = range[1]
          /\ frame_range_end' = range[2]
  /\ \E now \in clock..Min(clock + 1, MaxClock) :
       /\ clock' = now
       /\ output_dir' = now
       /\ fs' = MakeDirs(fs, now)
  /\ runs' = runs + 1
  /\ pc' = "select"
  /\ UNCHANGED <<guiVars, loopVars, log, tasks, opens, ret, written,
                 probe, pmVars>>

\* ---------------------------------------------------------------- the engine
\* Lines 566-601: use the given frame numbers or generate new ones from the
\* first video's frame count.
SelectFrameNumbers ==
  /\ pc = "select"
  /\ IF frame_numbers # NoneFrames
     THEN /\ log' = Append(log, LogEntry("use_given", Len(frame_numbers), 0))
          /\ pc' = "load"
          /\ i' = 1
          /\ UNCHANGED <<frame_numbers, count, opens, ret>>
     ELSE IF videos = <<>>
     THEN /\ log' = Append(log, LogEntry("no_videos", 0, 0))
          /\ ret' = <<>>
          /\ pc' = "done"
          /\ UNCHANGED <<frame_numbers, count, opens, i>>
     ELSE IF ~videos[1].openable
     THEN /\ opens' = Append(opens, 1)
          /\ log' = Append(log, LogEntry("ref_load_failed", 1, 0))
          /\ ret' = <<>>
          /\ pc' = "done"
          /\ UNCHANGED <<frame_numbers, count, i>>
     ELSE LET total_frames ==
                ApplyFpsConversion(videos[1].num_frames, videos[1].fps_type)
              start_frame == StartFrame(frame_range_start)
              end_frame == EndFrame(frame_range_end, total_frames)
              available_frames == end_frame - start_frame
              status == GenerateStatus(total_frames, count, frame_range_start,
                                       frame_range_end)
          IN /\ opens' = Append(opens, 1)
             /\ IF status = "range_invalid"
                THEN /\ log' = log \o <<LogEntry("ref_total", total_frames, 0),
                                        LogEntry("range_invalid", start_frame,
                                                 end_frame)>>
                     /\ ret' = <<>>
                     /\ pc' = "done"
                     /\ UNCHANGED <<frame_numbers, count, i>>
                ELSE IF status = "raised"
                THEN /\ log' = Append(log, LogEntry("ref_total", total_frames, 0))
                     /\ pc' = "raised"
                     /\ UNCHANGED <<frame_numbers, count, ret, i>>
                ELSE /\ count' = AdjustedCount(count, available_frames)
                     /\ frame_numbers' \in
                          GeneratedFrameNumbers(total_frames, count,
                                                frame_range_start,
                                                frame_range_end)
                     /\ log' = log
                          \o <<LogEntry("ref_total", total_frames, 0)>>
                          \o (IF count > available_frames
                              THEN <<LogEntry("count_adjusted", count,
                                              available_frames)>>
                              ELSE <<>>)
                          \o <<LogEntry("generated", start_frame, end_frame)>>
                     /\ pc' = "load"
                     /\ i' = 1
                     /\ UNCHANGED ret
  /\ UNCHANGED <<guiVars, fs, clock, runs, gui_frame_numbers, requested_count,
                 frame_range_start, frame_range_end, output_dir, j,
                 video_total_frames, ratio, frames_to_capture,
                 screenshot_count, tasks, written, probe,
                 pmVars>>

VideoFps_OfReference(video) ==
  IF videos[1].video_fps # EmptyFps
  THEN videos[1].video_fps ELSE videos[1].clip_fps

\* video_fps of lines 612-623: the user's setting, else the clip's rate.
VideoFps(video) ==
  IF video.video_fps # EmptyFps THEN video.video_fps ELSE video.clip_fps

\* Lines 604-660: open the next video and derive its conversion ratio.  A
\* failed open, or a division by zero, skips the video.
LoadVideo ==
  /\ pc = "load"
  /\ i <= Len(videos)
  /\ opens' = Append(opens, i)
  /\ LET video == videos[i]
         video_fps == VideoFps(video)
         failed == \/ ~video.openable
                   \/ video_fps[2] = 0
                   \/ video.screenshot_fps[1] = 0
     IN IF failed
        THEN /\ log' = log \o <<LogEntry("processing", i, 0),
                                LogEntry("video_failed", i, 0)>>
             /\ i' = i + 1
             /\ UNCHANGED <<pc, j, video_total_frames, ratio, screenshot_count>>
        ELSE /\ log' = Append(log, LogEntry("processing", i, 0))
             /\ video_total_frames' = video.num_frames
             /\ ratio' = Ratio(video_fps, video.screenshot_fps)
             /\ screenshot_count' = 0
             /\ j' = 1
             /\ pc' = "frames"
             /\ UNCHANGED i
  /\ UNCHANGED <<guiVars, fs, clock, runs, callVars, frame_numbers,
                 frames_to_capture, tasks, ret, written, probe,
                 pmVars>>

\* The candidates clip.get_frame is called on, in order: the window up to
\* and including the first frame whose decoding fails (the exception leaves
\* the loop over frames_to_capture).
RECURSIVE Requested(_, _)
Requested(window, corrupt) ==
  IF window = <<>> THEN <<>>
  ELSE IF Head(window) \in corrupt THEN <<Head(window)>>
  ELSE <<Head(window)>> \o Requested(Tail(window), corrupt)

\* The files saved into `dir` for the frames `saved` of one reference frame.
RECURSIVE SaveFiles(_, _, _, _, _)
SaveFiles(files, dir, aligned_frame, saved, video_name) ==
  IF saved = <<>> THEN files
  ELSE SaveFiles(SaveFile(files, dir,
                          ScreenshotFilename(aligned_frame, Head(saved),
                                             video_name)),
                 dir, aligned_frame, Tail(saved), video_name)

\* Lines 661-745, one pass of the loop over frame_numbers: base frame,
\* tolerance window, then one request and one saved file per candidate.  With
\* a tolerance above zero the log line reads frames_to_capture[0], which
\* raises IndexError on an empty window; any exception is logged and the loop
\* goes on with the next reference frame.
ScreenshotFrame ==
  /\ pc = "frames"
  /\ j <= Len(frame_numbers)
  /\ LET aligned_frame == frame_numbers[j]
         video_tolerance == videos[i].tolerance
         base_frame == BaseFrame(aligned_frame, ratio, videos[i].offset)
         window == FramesToCapture(base_frame, video_tolerance,
                                   video_total_frames)
         requested == Requested(window, videos[i].corrupt)
         saved == SelectSeq(requested, LAMBDA f : f \notin videos[i].corrupt)
         raised == \/ video_tolerance > 0 /\ window = <<>>
                   \/ Len(saved) < Len(requested)
     IN /\ frames_to_capture' = window
        /\ tasks' = tasks \o [n \in DOMAIN requested |->
                                [ref |-> aligned_frame, src |-> requested[n],
                                 video |-> i]]
        /\ fs' = SaveFiles(fs, output_dir, aligned_frame, saved, videos[i].name)
        /\ written' = IF saved = <<>> THEN written
                      ELSE written \cup {<<output_dir, aligned_frame>>}
        /\ screenshot_count' = screenshot_count + Len(saved)
        /\ log' = log \o <<LogEntry("calc", aligned_frame, base_frame)>>
                    \o (IF video_tolerance > 0 /\ window # <<>>
                        THEN <<LogEntry("tolerance_range", window[1],
                                        window[Len(window)])>>
                        ELSE <<>>)
                    \o (IF raised
                        THEN <<LogEntry("frame_failed", aligned_frame, 0)>>
                        ELSE <<>>)
  /\ j' = j + 1
  /\ UNCHANGED <<guiVars, clock, runs, pc, callVars, frame_numbers, i,
                 video_total_frames, ratio, opens, ret, probe,
                 pmVars>>

\* Line 747: the video's frames are done.
FinishVideo ==
  /\ pc = "frames"
  /\ j > Len(frame_numbers)
  /\ log' = Append(log, LogEntry("video_done", i, screenshot_count))
  /\ i' = i + 1
  /\ pc' = "load"
  /\ UNCHANGED <<guiVars, fs, clock, runs, callVars, frame_numbers, j,
                 video_total_frames, ratio, frames_to_capture,
                 screenshot_count, tasks, opens, ret, written, probe,
                 pmVars>>

\* Lines 753-755: every video is done; return frame_numbers.
EngineReturn ==
  /\ pc = "load"
  /\ i > Len(videos)
  /\ log' = Append(log, LogEntry("all_done", 0, 0))
  /\ ret' = frame_numbers
  /\ pc' = "done"
  /\ UNCHANGED <<guiVars, fs, clock, runs, callVars, frame_numbers, loopVars,
                 tasks, opens, written, probe,
                 pmVars>>

\* ------------------------------------------------- back in start_screenshot
HistoryAppend_Overwrite(history, entry) ==
  IF history = <<>> THEN <<entry>> ELSE [history EXCEPT ![Len(history)] = entry]

HistoryAppend_AtFront(history, entry) == <<entry>> \o history

\* self.screenshot_history.append(entry)
HistoryAppend(history, entry) == Append(history, entry)

RunEntry(timestamp, n, frames) ==
  [name |-> HistoryName(timestamp, n), frames |-> frames,
   timestamp |-> timestamp, folder |-> NoFolder, source |-> "run"]

\* update_history_combo
ComboValues(history) == {NewName} \cup {history[n].name : n \in DOMAIN history}

\* The call's locals go out of scope.
RunReset ==
  /\ gui_frame_numbers' = NoneFrames
  /\ requested_count' = 0
  /\ count' = 0
  /\ frame_range_start' = 0
  /\ frame_range_end' = 0
  /\ output_dir' = 0
  /\ frame_numbers' = NoneFrames
  /\ i' = 0
  /\ j' = 0
  /\ video_total_frames' = 0
  /\ ratio' = NoRatio
  /\ frames_to_capture' = <<>>
  /\ screenshot_count' = 0
  /\ log' = <<>>
  /\ tasks' = <<>>
  /\ opens' = <<>>
  /\ ret' = NoneFrames

\* Lines 1411-1433: a new run is saved to the history under the requested
\* count; a replay is not.
FinishScreenshot ==
  /\ pc = "done"
  /\ IF gui_frame_numbers = NoneFrames
     THEN /\ screenshot_history' =
               HistoryAppend(screenshot_history,
                             RunEntry(output_dir, requested_count, ret))
          /\ combo_values' = ComboValues(screenshot_history')
     ELSE UNCHANGED <<screenshot_history, combo_values>>
  /\ pc' = "idle"
  /\ RunReset
  /\ UNCHANGED <<videos, history_combo, config, fs, clock, runs, written,
                 probe, pmVars>>

\* Lines 1441-1443: the engine raised; nothing is saved to the history.
FailScreenshot ==
  /\ pc = "raised"
  /\ pc' = "idle"
  /\ RunReset
  /\ UNCHANGED <<guiVars, fs, clock, runs, written, probe,
                 pmVars>>

\* save_config -> save_current_project: video_fps and scan_type are not
\* among the saved keys.
SaveConfig ==
  /\ pc = "idle"
  /\ config' = [screenshot_history |-> screenshot_history, videos |-> videos]
  /\ config' # config
  /\ UNCHANGED <<videos, screenshot_history, history_combo, combo_values, fs,
                 clock, runs, pc, callVars, frame_numbers, loopVars, log,
                 tasks, opens, ret, written, probe,
                 pmVars>>

FolderEntry(folder_name, sorted_frames) ==
  [name |-> HistoryName(folder_name, Len(sorted_frames)),
   frames |-> sorted_frames, timestamp |-> folder_name,
   folder |-> folder_name, source |-> "folder"]

\* The orders in which os.listdir may list a directory holding `entries`.
Listings(entries) == {entries, Reverse(entries)}

Perms(S) == {f \in [1..Cardinality(S) -> S] : Range(f) = S}

\* scan_screenshot_folders over the folders in the order `folders`, the
\* files of each listed as `listing[folder]`.
RECURSIVE ScanFolders(_, _, _)
ScanFolders(history, folders, listing) ==
  IF folders = <<>> THEN history
  ELSE LET folder_name == Head(folders)
           already_exists ==
             \E n \in DOMAIN history : history[n].folder = folder_name
           found == ScanListing(listing[folder_name])
       IN ScanFolders(IF ~already_exists /\ found # {}
                      THEN HistoryAppend(history,
                                         FolderEntry(folder_name, Sorted(found)))
                      ELSE history,
                      Tail(folders), listing)

\* VideoEntry(...) in load_project: video_fps is not read from the config
\* and takes the constructor's default.
LoadedVideo(video_data) == [video_data EXCEPT !.video_fps = DefaultVideoFps]

\* show_project_selector with the project chosen again:
\* clear_current_project, then load_project (history from config.json, folder
\* scan, selector values, videos).  The selector's current value stays.
ShowProjectSelector ==
  /\ pc = "idle"
  /\ \E folders \in Perms(DOMAIN fs) :
       \E listing \in [DOMAIN fs -> UNION {Listings(fs[d]) : d \in DOMAIN fs}] :
         /\ \A d \in DOMAIN fs : listing[d] \in Listings(fs[d])
         /\ screenshot_history' =
              ScanFolders(config.screenshot_history, folders, listing)
  /\ combo_values' = ComboValues(screenshot_history')
  /\ videos' = [n \in DOMAIN config.videos |-> LoadedVideo(config.videos[n])]
  /\ UNCHANGED <<history_combo, config, fs, clock, runs, pc, callVars,
                 frame_numbers, loopVars, log, tasks, opens, ret, written,
                 probe, pmVars>>

Next ==
  \/ AddVideo
  \/ SelectHistory
  \/ SaveConfig
  \/ ShowProjectSelector
  \/ StartScreenshot
  \/ SelectFrameNumbers
  \/ LoadVideo
  \/ ScreenshotFrame
  \/ FinishVideo
  \/ EngineReturn
  \/ FinishScreenshot
  \/ FailScreenshot

Spec == Init /\ [][Next]_vars

\* ------------------------------------------- the arithmetic on drawn inputs
MaxFrame == 4
MaxOffset == 2
MaxTolerance == 2
MaxTotal == 4
MaxSample == 5

\* The rates a row's video_fps and screenshot_fps entries can hold; nothing
\* in update_videos_from_ui rejects a zero or negative number.
ProbeVideoFps ==
  {Fps(23976, 1000), Fps(24, 1), Fps(25, 1), Fps(30000, 1001), Fps(50, 1),
   Fps(0, 1), Fps(-25, 1)}

ProbeScreenshotFps == {Fps(24, 1), Fps(25, 1), Fps(0, 1), Fps(-25, 1)}

\* The values of a row's alignment_mode selector: no alignment, decimate,
\* duplicate frames, reverse pulldown, speed change, interpolate.
AlignmentModes ==
  {"none", "decimate", "duplicate", "pulldown_reverse", "speed_change",
   "interpolate"}

AlignInputs ==
  {[NoProbe EXCEPT !.op = "align_input", !.aligned_frame = r,
                   !.video_fps = vf, !.screenshot_fps = sf, !.offset = o,
                   !.tolerance = t, !.total_frames = n,
                   !.alignment_mode = mode] :
     r \in 0..MaxFrame, vf \in ProbeVideoFps, sf \in ProbeScreenshotFps,
     o \in (-MaxOffset)..MaxOffset, t \in 0..MaxTolerance, n \in 0..MaxTotal,
     mode \in AlignmentModes}

GenerateInputs ==
  {[NoProbe EXCEPT !.op = "generate_input", !.total_frames = n, !.count = c,
                   !.frame_range_start = rs, !.frame_range_end = re,
                   !.offset = o] :
     n \in 0..MaxTotal, c \in (-1)..MaxSample, rs \in (-1)..MaxTotal,
     re \in (-2)..(MaxTotal + 1), o \in 0..1}

\* VideoEntry.name: the file's base name unless the row is renamed.
ProbeNames ==
  {<<"A">>, <<"A", ".", "t">>, <<"A", ".", "m">>, <<"A", "?">>, <<"A", "*">>,
   <<"A", "_">>, <<"B">>}

\* Two rows of one run and one (reference frame, source frame) pair.
NameInputs ==
  {[NoProbe EXCEPT !.op = "name_input", !.names = <<a, b>>,
                   !.aligned_frame = r, !.base_frame = f] :
     a \in ProbeNames, b \in ProbeNames, r \in 0..1, f \in 0..1}

\* Names a screenshots folder can hold: two files written by a run, and
\* three other files (7_x.png, notes.png, x_000001_A.png).
ProbeFiles ==
  { <<"0", "0", "0", "0", "0", "1", "_", "0", "0", "0", "0", "0", "0",
       "_", "A", ".", "p", "n", "g">>,
     <<"0", "0", "0", "0", "0", "2", "_", "0", "0", "0", "0", "0", "1",
       "_", "A", ".", "p", "n", "g">>,
     <<"7", "_", "x", ".", "p", "n", "g">>,
     <<"n", "o", "t", "e", "s", ".", "p", "n", "g">>,
     <<"x", "_", "0", "0", "0", "0", "0", "1", "_", "A", ".", "p", "n",
       "g">> }

MaxListing == 2

\* os.listdir of a folder: distinct names in some order.
ProbeListings ==
  {l \in UNION {[1..n -> ProbeFiles] : n \in 0..MaxListing} :
     \A m, n \in DOMAIN l : m # n => l[m] # l[n]}

\* The listings of two folders of the project's screenshots directory.
ScanInputs ==
  {[NoProbe EXCEPT !.op = "scan_input", !.listing = <<a, b>>] :
     a \in ProbeListings, b \in ProbeListings}

\* One frame number of an older entry point, with the row's offset and the
\* clip's frame count.
LegacyInputs ==
  {[NoProbe EXCEPT !.op = "legacy_input", !.aligned_frame = r, !.offset = o,
                   !.total_frames = n] :
     r \in 0..MaxFrame, o \in (-MaxOffset)..MaxOffset, n \in 0..MaxTotal}

\* The worked example of the comment at lines 425-426: reference frame 52986
\* at 25 fps, a 29.97 fps source with offset 332, tolerance 3.
ScenarioA ==
  [NoProbe EXCEPT !.op = "align_input", !.aligned_frame = 52986,
                  !.video_fps = Fps(2997, 100), !.screenshot_fps = Fps(25, 1),
                  !.offset = 332, !.tolerance = 3, !.total_frames = 100000]

PureInit ==
  /\ MainInit
  /\ probe \in AlignInputs \cup GenerateInputs \cup NameInputs \cup {ScenarioA}
                \cup ScanInputs \cup LegacyInputs

\* Lines 612-673 / 702-711 on the drawn source and reference frame.  A
\* screenshot_fps of zero raises ZeroDivisionError at line 630 and the source
\* is skipped; no other rate is rejected and alignment_mode is not read.
ProbeAlign ==
  /\ probe.op = "align_input"
  /\ IF probe.screenshot_fps[1] = 0
     THEN probe' = [probe EXCEPT !.op = "aligned", !.status = "video_failed"]
     ELSE LET base_frame ==
                BaseFrame(probe.aligned_frame,
                          Ratio(probe.video_fps, probe.screenshot_fps),
                          probe.offset)
          IN probe' = [probe EXCEPT
                         !.op = "aligned", !.status = "ok",
                         !.base_frame = base_frame,
                         !.out = FramesToCapture(base_frame, probe.tolerance,
                                                 probe.total_frames)]
  /\ UNCHANGED mainVars

\* Lines 583-598 on the drawn frame count, count and range.
ProbeGenerate ==
  /\ probe.op = "generate_input"
  /\ probe.offset = 0
  /\ LET status == GenerateStatus(probe.total_frames, probe.count,
                                  probe.frame_range_start,
                                  probe.frame_range_end)
     IN IF status = "ok"
        THEN \E frames \in GeneratedFrameNumbers(probe.total_frames, probe.count,
                                                 probe.frame_range_start,
                                                 probe.frame_range_end) :
               probe' = [probe EXCEPT !.op = "generated", !.status = status,
                                      !.out = frames]
        ELSE probe' = [probe EXCEPT !.op = "generated", !.status = status]
  /\ UNCHANGED mainVars

\* generate_frame_numbers on the drawn frame count, count and offset.
ProbeLegacyGenerate ==
  /\ probe.op = "generate_input"
  /\ probe.frame_range_start = 0
  /\ probe.frame_range_end = 0
  /\ LET status == LegacyGenerateStatus(probe.total_frames, probe.count,
                                        probe.offset)
     IN IF status = "ok"
        THEN \E frames \in generate_frame_numbers(probe.total_frames,
                                                  probe.count, probe.offset) :
               probe' = [probe EXCEPT !.op = "legacy_generated",
                                      !.status = status, !.out = frames]
        ELSE probe' = [probe EXCEPT !.op = "legacy_generated",
                                    !.status = status]
  /\ UNCHANGED mainVars

\* Lines 694-697 for the same frame pair of two rows.
ProbeName ==
  /\ probe.op = "name_input"
  /\ probe' = [probe EXCEPT
                 !.op = "named",
                 !.out = [n \in 1..2 |->
                            ScreenshotFilename(probe.aligned_frame,
                                               probe.base_frame,
                                               probe.names[n])]]
  /\ UNCHANGED mainVars

\* scan_screenshot_folders over the two drawn folders, from an empty history.
ProbeScan ==
  /\ probe.op = "scan_input"
  /\ probe' = [probe EXCEPT
                 !.op = "scanned",
                 !.out = ScanFolders(<<>>, <<1, 2>>, probe.listing)]
  /\ UNCHANGED mainVars

\* Lines 76-86, 322-332 and 457-466 on the drawn frame number.
ProbeLegacyRequest ==
  /\ probe.op = "legacy_input"
  /\ probe' = [probe EXCEPT
                 !.op = "legacy_requested",
                 !.out = LegacyRequest(probe.aligned_frame, probe.offset,
                                       probe.total_frames)]
  /\ UNCHANGED mainVars

PureNext ==
  \/ ProbeAlign
  \/ ProbeGenerate
  \/ ProbeLegacyGenerate
  \/ ProbeName
  \/ ProbeScan
  \/ ProbeLegacyRequest

SpecPure == PureInit /\ [][PureNext]_vars

\* ------------------------------------------------- project manager calls
\* Everything but the project manager's directories and last call.
engineVars ==
  <<videos, screenshot_history, history_combo, combo_values, config, fs,
    clock, runs, pc, gui_frame_numbers, requested_count, count,
    frame_range_start, frame_range_end, output_dir, frame_numbers, i, j,
    video_total_frames, ratio, frames_to_capture, screenshot_count, log,
    tasks, opens, ret, written, probe>>

Call(op, name, new_name, project_config, ok, result) ==
  [op |-> op, name |-> name, new_name |-> new_name, config |-> project_config,
   ok |-> ok, result |-> result, calls |-> pm_call.calls + 1]

\* create_project(project_name)
CreateProject ==
  /\ pm_call.calls < MaxCalls
  /\ \E project_name \in ProjectNames :
       LET safe_name == CreatedName(projects_dir, project_name)
       IN /\ projects_dir' = WriteConfig(projects_dir, safe_name,
                                         DefaultConfig(project_name))
          /\ screenshots_dir' = EnsureDir(screenshots_dir, safe_name)
          /\ pm_call' = Call("create_project", project_name, safe_name,
                             DefaultConfig(project_name), TRUE, NoResult)
  /\ UNCHANGED engineVars

\* save_project(project_name, config): the project is created first when
\* its directory is missing, and the config is written into the directory
\* create_project returned.
SaveProject ==
  /\ pm_call.calls < MaxCalls
  /\ \E project_name \in ProjectNames, c \in ScreenshotCounts :
       LET exists == project_name \in DOMAIN projects_dir
           project_path == IF exists THEN project_name
                           ELSE CreatedName(projects_dir, project_name)
           project_config == [program_name |-> project_name,
                              screenshot_count |-> c, modified |-> NoModified]
           save_config == [project_config EXCEPT !.modified = Timestamp]
       IN /\ projects_dir' = WriteConfig(projects_dir, project_path, save_config)
          /\ screenshots_dir' = IF exists THEN screenshots_dir
                                ELSE EnsureDir(screenshots_dir, project_path)
          /\ pm_call' = Call("save_project", project_name, project_path,
                             project_config, TRUE, NoResult)
  /\ UNCHANGED engineVars

\* load_project(project_name): None when the directory has no config.json.
LoadProject ==
  /\ pm_call.calls < MaxCalls
  /\ \E project_name \in ProjectNames \cup DOMAIN projects_dir :
       pm_call' =
         IF project_name \in DOMAIN projects_dir
         THEN Call("load_project", project_name, <<>>, DefaultConfig(<<>>),
                   TRUE, LoadedConfig(projects_dir, project_name))
         ELSE Call("load_project", project_name, <<>>, DefaultConfig(<<>>),
                   FALSE, NoResult)
  /\ UNCHANGED <<engineVars, projects_dir, screenshots_dir>>

\* rename_project(old_name, new_name): the project directory is renamed and
\* program_name rewritten; the screenshots directory is not touched.
RenameProject ==
  /\ pm_call.calls < MaxCalls
  /\ \E old_name \in ProjectNames \cup DOMAIN projects_dir,
        new_name \in ProjectNames :
       LET safe_name == SafeName(new_name)
       IN IF old_name \notin DOMAIN projects_dir
             \/ safe_name \in DOMAIN projects_dir
          THEN /\ pm_call' = Call("rename_project", old_name, new_name,
                                  DefaultConfig(<<>>), FALSE, NoResult)
               /\ UNCHANGED projects_dir
          ELSE /\ projects_dir' =
                    [d \in (DOMAIN projects_dir \ {old_name}) \cup {safe_name} |->
                       IF d = safe_name
                       THEN [projects_dir[old_name] EXCEPT
                               !.program_name = new_name]
                       ELSE projects_dir[d]]
               /\ pm_call' = Call("rename_project", old_name, new_name,
                                  DefaultConfig(<<>>), TRUE, NoResult)
  /\ UNCHANGED <<engineVars, screenshots_dir>>

\* get_project_screenshots_dir(project_name)
GetProjectScreenshotsDir ==
  /\ pm_call.calls < MaxCalls
  /\ \E project_name \in ProjectNames \cup DOMAIN projects_dir :
       /\ screenshots_dir' = EnsureDir(screenshots_dir, project_name)
       /\ pm_call' = Call("get_project_screenshots_dir", project_name,
                          project_name, DefaultConfig(<<>>), TRUE, NoResult)
  /\ UNCHANGED <<engineVars, projects_dir>>

\* start_screenshot, lines 1379-1388, for the current project: one run
\* folder is made in the project's screenshots directory.
WriteScreenshots ==
  /\ pm_call.calls < MaxCalls
  /\ \E current_project \in DOMAIN projects_dir :
       /\ screenshots_dir' =
            [EnsureDir(screenshots_dir, current_project) EXCEPT
               ![current_project] = @ \cup {Timestamp}]
       /\ pm_call' = Call("start_screenshot", current_project,
                          current_project, DefaultConfig(<<>>), TRUE, NoResult)
  /\ UNCHANGED <<engineVars, projects_dir>>

ProjectsNext ==
  \/ CreateProject
  \/ SaveProject
  \/ LoadProject
  \/ RenameProject
  \/ GetProjectScreenshotsDir
  \/ WriteScreenshots

SpecProjects == Init /\ [][ProjectsNext]_vars

\* ============================================================== properties
\* floor(r * sourceFps / referenceFps), for positive rates.
RatioFormula(aligned_frame, video_fps, screenshot_fps) ==
  (aligned_frame * video_fps[1] * screenshot_fps[2])
    \div (video_fps[2] * screenshot_fps[1])

\* C1: for every reference frame r >= 0, positive sourceFps and referenceFps
\* and every offset, the base source frame equals
\* floor(r * sourceFps / referenceFps) + offset, the no-conversion branch
\* included.
C1_BaseFrameIsRatioFormula ==
  probe.op = "aligned" /\ probe.video_fps[1] > 0 /\ probe.screenshot_fps[1] > 0 =>
    probe.base_frame =
      RatioFormula(probe.aligned_frame, probe.video_fps, probe.screenshot_fps)
        + probe.offset

\* C2: the candidate window of base frame f, tolerance t and frame count
\* total holds exactly the integers of [max(0, f-t), min(total, f+t+1)),
\* min(2t+1, size of that interval) of them, strictly ascending; with t = 0
\* and f in [0, total) it is <<f>>.
C2_WindowIsClippedInterval ==
  probe.op = "aligned" /\ probe.status = "ok" =>
    LET f == probe.base_frame
        t == probe.tolerance
        total == probe.total_frames
        lo == Max(0, f - t)
        hi == Min(total, f + t + 1)
        size == IF hi > lo THEN hi - lo ELSE 0
    IN /\ Range(probe.out) = lo..(hi - 1)
       /\ Len(probe.out) = Min(2 * t + 1, size)
       /\ IsStrictlyAscending(probe.out)
       /\ (t = 0 /\ 0 <= f /\ f < total => probe.out = <<f>>)

\* C2 witness: a window cut by both ends of the domain, and a window of
\* tolerance zero inside the domain.
C2_Witness ==
  /\ probe.op = "aligned"
  /\ probe.status = "ok"
  /\ \/ /\ probe.tolerance = 2
        /\ probe.out # <<>>
        /\ Len(probe.out) < 5
     \/ /\ probe.tolerance = 0
        /\ probe.out = <<probe.base_frame>>
        /\ probe.base_frame > 0

\* A generated frame set is strictly ascending, has at most `count`
\* elements, and lies in [lo, hi).
GeneratedWithin(lo, hi) ==
  /\ IsStrictlyAscending(probe.out)
  /\ Len(probe.out) <= probe.count
  /\ \A n \in DOMAIN probe.out : lo <= probe.out[n] /\ probe.out[n] < hi

\* C3 as stated: every freshly generated frame set is strictly ascending, has
\* at most `count` elements and lies in
\* [max(0, rangeStart), min(rangeEnd or totalFrames, totalFrames)), for every
\* integer rangeStart and rangeEnd.
C3_Original ==
  probe.op = "generated" /\ probe.status = "ok" =>
    GeneratedWithin(Max(0, probe.frame_range_start),
                    Min(IF probe.frame_range_end # 0
                        THEN probe.frame_range_end ELSE probe.total_frames,
                        probe.total_frames))

\* C3 amended: every freshly generated frame set is strictly ascending, has
\* at most `count` elements and lies in [max(0, rangeStart),
\* min(rangeEnd if rangeEnd > 0 else totalFrames, totalFrames)).
C3_GeneratedFrameSet ==
  probe.op = "generated" /\ probe.status = "ok" =>
    GeneratedWithin(Max(0, probe.frame_range_start),
                    IF probe.frame_range_end > 0
                    THEN Min(probe.frame_range_end, probe.total_frames)
                    ELSE probe.total_frames)

\* C3 witness: a non-empty frame set drawn with a negative rangeEnd and a
\* negative rangeStart.
C3_Witness ==
  /\ probe.op = "generated"
  /\ probe.status = "ok"
  /\ probe.frame_range_end < 0
  /\ probe.frame_range_start < 0
  /\ Len(probe.out) = 2

\* C4: when the requested count is at least the number of frames of a
\* non-empty effective range, generation succeeds and returns every index of
\* the range in ascending order; generate_frame_numbers does the same over
\* [0, total_frames).
C4_SaturatesToWholeRange ==
  /\ probe.op = "generated" =>
       LET lo == Max(0, probe.frame_range_start)
           hi == IF probe.frame_range_end > 0
                 THEN Min(probe.frame_range_end, probe.total_frames)
                 ELSE probe.total_frames
       IN lo < hi /\ probe.count >= hi - lo =>
            /\ probe.status = "ok"
            /\ probe.out = [n \in 1..(hi - lo) |-> lo + n - 1]
  /\ probe.op = "legacy_generated" /\ probe.offset = 0 =>
       (probe.total_frames > 0 /\ probe.count >= probe.total_frames =>
          /\ probe.status = "ok"
          /\ probe.out = [n \in 1..probe.total_frames |-> n - 1])

\* C4 witness: more frames requested than a range of several frames holds.
C4_Witness ==
  /\ probe.op = "generated"
  /\ probe.count > Len(probe.out)
  /\ Len(probe.out) >= 2
  /\ probe.frame_range_start > 0

\* The entries of kind `kind` in the run's log.
Logged(kind) == SelectSeq(log, LAMBDA e : e.kind = kind)

PosIn(s, x) == CHOOSE n \in DOMAIN s : s[n] = x

RECURSIVE Repeat(_, _)
Repeat(s, k) == IF k = 0 THEN <<>> ELSE s \o Repeat(s, k - 1)

\* C5: a replay uses the frames of the history entry named by the selector,
\* verbatim: no reference load and no sampling whatever the count and range
\* entries hold, each frame handled in stored order for every source that
\* opens, the same sequence returned, and the history left as it was, so
\* that a further replay starts from the same entry.
C5_ReplayUsesStoredFrames ==
  [][ /\ (gui_frame_numbers # NoneFrames =>
            screenshot_history' = screenshot_history)
      /\ (gui_frame_numbers' # NoneFrames =>
            /\ \E n \in DOMAIN screenshot_history' :
                 /\ screenshot_history'[n].name = history_combo'
                 /\ screenshot_history'[n].frames = gui_frame_numbers'
            /\ frame_numbers' = gui_frame_numbers'
            /\ \A n \in DOMAIN log' :
                 log'[n].kind \notin {"ref_total", "count_adjusted",
                                      "generated", "range_invalid",
                                      "ref_load_failed", "no_videos"}
            /\ IsStrictlyAscending(opens')
            /\ pc' # "raised"
            /\ (pc' = "done" =>
                  /\ ret' = gui_frame_numbers'
                  /\ LET calc == SelectSeq(log', LAMBDA e : e.kind = "calc")
                         done == SelectSeq(log',
                                           LAMBDA e : e.kind = "video_done")
                     IN [n \in DOMAIN calc |-> calc[n].a]
                          = Repeat(gui_frame_numbers', Len(done)))) ]_vars

\* C5 witness: a finished replay of an entry holding frames below the range
\* start typed for the run, with frames extracted.
C5_Witness ==
  /\ pc = "done"
  /\ gui_frame_numbers # NoneFrames
  /\ frame_range_start = 3
  /\ Len(gui_frame_numbers) = 2
  /\ gui_frame_numbers[1] < 3
  /\ tasks # <<>>

\* The file names of scenario D.
ScenarioD ==
  << <<"0", "0", "0", "1", "0", "0", "_", "0", "0", "0", "0", "9", "6", "_",
       "V", "e", "r", "A", ".", "p", "n", "g">>,
     <<"0", "0", "0", "2", "5", "0", "_", "0", "0", "0", "2", "4", "6", "_",
       "V", "e", "r", "A", ".", "p", "n", "g">> >>

\* C6: the history entry the folder scan builds from an output directory
\* holds exactly the reference frames of the files the runs wrote there,
\* ascending and duplicate-free, in whatever order the directory is listed;
\* the two file names of scenario D give [100, 250].
C6_FolderScanRecoversWrittenFrames ==
  [][ ShowProjectSelector =>
        /\ \A n \in DOMAIN screenshot_history' :
             LET e == screenshot_history'[n]
             IN n > Len(config.screenshot_history) =>
                  /\ e.source = "folder"
                  /\ e.folder \in DOMAIN fs
                  /\ e.frames = Sorted({w[2] : w \in {x \in written :
                                                       x[1] = e.folder}})
                  /\ IsStrictlyAscending(e.frames)
        /\ \A d \in DOMAIN fs :
             (/\ \E w \in written : w[1] = d
              /\ \A n \in DOMAIN config.screenshot_history :
                   config.screenshot_history[n].folder # d)
             => \E n \in DOMAIN screenshot_history' :
                  /\ n > Len(config.screenshot_history)
                  /\ screenshot_history'[n].folder = d
        /\ Sorted(ScanListing(ScenarioD)) = <<100, 250>>
        /\ Sorted(ScanListing(Reverse(ScenarioD))) = <<100, 250>> ]_vars

\* C6 witness: a scanned entry of two reference frames, built from a
\* directory of more than two files.
C6_Witness ==
  \E n \in DOMAIN screenshot_history :
    /\ screenshot_history[n].source = "folder"
    /\ Len(screenshot_history[n].frames) = 2
    /\ Len(fs[screenshot_history[n].folder]) > 2

\* The requests a run over `frames` makes of source n: every candidate of
\* the window of each reference frame, up to the first one that fails.
ExpectedTasks(n, frames) ==
  LET v == videos[n]
      t == v.tolerance
  IN IF ~v.openable THEN {}
     ELSE {task \in [ref : Range(frames), src : 0..(v.num_frames - 1),
                     video : {n}] :
             LET base == BaseFrame(task.ref,
                                   Ratio(VideoFps(v), v.screenshot_fps),
                                   v.offset)
             IN /\ base - t <= task.src
                /\ task.src <= base + t
                /\ \A c \in v.corrupt : ~(base - t <= c /\ c < task.src)}

\* C7: extraction tasks come source by source in the order of the source
\* list, within a source in frame-set order of the reference frame, and
\* within a reference frame by ascending source frame; a finished run has
\* emitted exactly the tasks its frame set and sources determine, so two
\* runs over the same frame set and sources emit the same sequence.
C7_TaskOrder ==
  /\ \A m, n \in DOMAIN tasks :
       m < n =>
         /\ tasks[m].video <= tasks[n].video
         /\ tasks[m].video = tasks[n].video =>
              /\ PosIn(frame_numbers, tasks[m].ref)
                   <= PosIn(frame_numbers, tasks[n].ref)
              /\ tasks[m].ref = tasks[n].ref => tasks[m].src < tasks[n].src
  /\ \A n \in DOMAIN tasks : tasks[n].ref \in Range(frame_numbers)
  /\ pc = "done" =>
       Range(tasks) =
         IF ret = <<>> \/ ret = NoneFrames THEN {}
         ELSE UNION {ExpectedTasks(n, ret) : n \in DOMAIN videos}

\* C7 witness: a finished run with tasks of two sources, of two reference
\* frames of one source, and of two source frames of one reference frame.
C7_Witness ==
  /\ pc = "done"
  /\ \E m, n \in DOMAIN tasks : tasks[m].video # tasks[n].video
  /\ \E m, n \in DOMAIN tasks :
       tasks[m].video = tasks[n].video /\ tasks[m].ref # tasks[n].ref
  /\ \E m, n \in DOMAIN tasks :
       /\ tasks[m].video = tasks[n].video
       /\ tasks[m].ref = tasks[n].ref
       /\ tasks[m].src # tasks[n].src

\* C8: a source that cannot be opened is skipped alone, with a reported
\* error, and every other source is still processed, in replay and in
\* fresh-generation runs and wherever the failing source stands in the list.
C8_OnlyTheFailingSourceIsSkipped ==
  pc = "done" /\ Logged("range_invalid") = <<>> =>
    \A n \in DOMAIN videos :
      IF videos[n].openable
      THEN \E m \in DOMAIN log : log[m].kind = "video_done" /\ log[m].a = n
      ELSE \E m \in DOMAIN log :
             /\ log[m].kind \in {"video_failed", "ref_load_failed"}
             /\ log[m].a = n

\* C9: when the whole window of a reference frame lies outside the source,
\* no task is emitted for the pair, the skip is logged, and the loop goes on,
\* for every tolerance including zero.
C9_EmptyWindowIsLoggedAndSkipped ==
  pc = "frames" /\ j >= 2 /\ frames_to_capture = <<>> =>
    /\ \A n \in DOMAIN tasks :
         ~(tasks[n].ref = frame_numbers[j - 1] /\ tasks[n].video = i)
    /\ log # <<>>
    /\ log[Len(log)].kind = "frame_failed"
    /\ log[Len(log)].a = frame_numbers[j - 1]

\* C10: with an empty effective range (start >= end) a fresh generation
\* fails for the whole attempt: the engine returns no frame set, enters no
\* source's processing loop, requests no frame and writes no file.
C10_EmptyRangeFailsTheAttempt ==
  [][ /\ (/\ pc = "select"
          /\ frame_numbers = NoneFrames
          /\ videos # <<>>
          /\ videos[1].openable
          /\ LET total == ApplyFpsConversion(videos[1].num_frames,
                                             videos[1].fps_type)
                 start == Max(0, frame_range_start)
                 end == IF frame_range_end > 0
                        THEN Min(frame_range_end, total) ELSE total
             IN start >= end)
         => /\ pc' = "done"
            /\ ret' = <<>>
            /\ frame_numbers' = NoneFrames
            /\ tasks' = <<>>
            /\ opens' = <<1>>
            /\ Logged("processing")' = <<>>
            /\ fs' = fs
            /\ written' = written
      /\ (pc = "done" /\ ret = <<>> => fs' = fs /\ written' = written) ]_vars

\* C10 witness: a finished attempt whose range was rejected, with a second
\* source in the list.
C10_Witness ==
  /\ pc = "done"
  /\ Logged("range_invalid") # <<>>
  /\ Len(videos) = 2
  /\ ret = <<>>

\* C11: a source whose video_fps or screenshot_fps is zero or negative fails
\* alignment: the source is skipped and no extraction task is emitted for it.
C11_NonPositiveRateFailsTheSource ==
  (/\ probe.op = "aligned"
   /\ (probe.video_fps[1] <= 0 \/ probe.screenshot_fps[1] <= 0))
  => probe.out = <<>>

\* C12: for a source whose alignment mode is not "none" the ratio conversion
\* is not applied: with offset 0 the frames extracted for reference frame r
\* are r and its tolerance window, whatever the source's rate.
C12_AlignedSourceIsOneToOne ==
  (/\ probe.op = "aligned"
   /\ probe.alignment_mode # "none"
   /\ probe.video_fps[1] > 0
   /\ probe.screenshot_fps[1] > 0
   /\ probe.offset = 0)
  => /\ probe.base_frame = probe.aligned_frame
     /\ Range(probe.out) =
          {f \in (probe.aligned_frame - probe.tolerance)
                   ..(probe.aligned_frame + probe.tolerance) :
             0 <= f /\ f < probe.total_frames}

\* C13: distinct extraction tasks never map to the same file name: the
\* files of one (reference frame, source frame) pair of two sources with
\* distinct names are distinct, so a run's directory holds one file per task.
C13_DistinctTasksDistinctFiles ==
  probe.op = "named" /\ probe.names[1] # probe.names[2] =>
    probe.out[1] # probe.out[2]

\* C14: during one sampling run no source is opened more than once and no
\* frame of a source is requested more than once for a reference frame, in
\* fresh-generation and in replay runs.
C14_OneOpenPerSource ==
  pc = "done" =>
    /\ \A n \in DOMAIN videos :
         Cardinality({m \in DOMAIN opens : opens[m] = n}) <= 1
    /\ \A m, n \in DOMAIN tasks : m # n => tasks[m] # tasks[n]

\* C15: a fresh run whose frame-set generation failed (no source, reference
\* source not loadable, or empty range) appends no entry to the history.
C15_NoEntryForFailedGeneration ==
  [][ (/\ pc = "done"
       /\ gui_frame_numbers = NoneFrames
       /\ \E n \in DOMAIN log :
            log[n].kind \in {"no_videos", "ref_load_failed", "range_invalid"})
      => screenshot_history' = screenshot_history ]_vars

\* C16: when a project is loaded and its folders are scanned, an entry is
\* synthesized only for an output directory the history does not hold yet:
\* no entry added by the scan names the directory of another entry.
C16_ScanAddsOnlyUnknownDirectories ==
  [][ ShowProjectSelector =>
        \A m, n \in DOMAIN screenshot_history' :
          (m # n /\ n > Len(config.screenshot_history)) =>
            screenshot_history'[m].timestamp
              # screenshot_history'[n].timestamp ]_vars

IsPrefix(s, t) == Len(s) <= Len(t) /\ SubSeq(t, 1, Len(s)) = s

\* C17: within a loaded project the history keeps insertion order: recording
\* a run appends at the end and leaves the entries before it as they were,
\* and loading a project appends the entries of the folder scan after the
\* entries read from the project's configuration, in their stored order.
C17_HistoryKeepsInsertionOrder ==
  [][ IF ShowProjectSelector
      THEN IsPrefix(config.screenshot_history, screenshot_history')
      ELSE IsPrefix(screenshot_history, screenshot_history') ]_vars

\* C17 witness: a history of a recorded run followed by an entry the folder
\* scan discovered later.
C17_Witness ==
  /\ Len(screenshot_history) >= 2
  /\ screenshot_history[1].source = "run"
  /\ screenshot_history[Len(screenshot_history)].source = "folder"

\* C18: the frame set a fresh run recorded is still in the history after the
\* project is loaded again with no user action in between: every non-empty
\* frame list of a recorded run is the frame list of an entry after the load.
C18_RecordedRunSurvivesReload ==
  [][ ShowProjectSelector =>
        \A n \in DOMAIN screenshot_history :
          (/\ screenshot_history[n].source = "run"
           /\ screenshot_history[n].frames # <<>>)
          => \E m \in DOMAIN screenshot_history' :
               screenshot_history'[m].frames = screenshot_history[n].frames
    ]_vars

\* C19 as stated: in scenario A (reference 25 fps, source 29.97 fps, offset
\* 332, reference frame 52986, tolerance 3) the base source frame is 64183
\* and the window is 64180..64186.
C19_Original ==
  probe.op = "aligned" /\ probe.aligned_frame = 52986 =>
    /\ probe.base_frame = 64183
    /\ probe.out = [n \in 1..7 |-> 64179 + n]

\* C19 amended: in scenario A the base source frame is
\* int(52986 * 29.97 / 25) + 332 = 63519 + 332 = 63851 and the window is
\* 63848..63854, 7 frames.
C19_ScenarioA ==
  probe.op = "aligned" /\ probe.aligned_frame = 52986 =>
    /\ probe.base_frame = 63851
    /\ probe.out = [n \in 1..7 |-> 63847 + n]

\* C19 witness: scenario A has been aligned and its window holds 7 frames.
C19_Witness ==
  /\ probe.op = "aligned"
  /\ probe.aligned_frame = 52986
  /\ probe.offset = 332
  /\ Len(probe.out) = 7

\* A name of the form {6 digits}_{6 digits}_{identity}.{ext}.
WellFormedName(filename) ==
  LET parts == Split(filename, "_")
      IsNumber(text) ==
        Len(text) = 6 /\ \A n \in DOMAIN text : text[n] \in Range(DigitChars)
  IN /\ Len(parts) >= 3
     /\ IsNumber(parts[1])
     /\ IsNumber(parts[2])
     /\ \E n \in 2..(Len(parts[Len(parts)]) - 1) : parts[Len(parts)][n] = "."

\* C20: during reconstruction a file whose name is not of the form
\* {6 digits}_{6 digits}_{identity}.{ext} contributes no frame index and does
\* not stop the scan: each folder yields an entry exactly when it holds a
\* well-formed name, with the reference frames of its well-formed names.
C20_MalformedNamesContributeNothing ==
  probe.op = "scanned" =>
    \A d \in 1..2 :
      LET well_formed == {f \in Range(probe.listing[d]) : WellFormedName(f)}
          frames == {DigitsValue(SubSeq(f, 1, 6)) : f \in well_formed}
          entries == {n \in DOMAIN probe.out : probe.out[n].folder = d}
      IN IF frames = {} THEN entries = {}
         ELSE /\ Cardinality(entries) = 1
              /\ \A n \in entries : probe.out[n].frames = Sorted(frames)

\* C21: a failure of one extraction task does not abort sibling work: once a
\* reference frame of a source has been handled, every candidate of its
\* tolerance window has been requested from the decoder, a failed request
\* among them or not.
C21_FailureLeavesSiblingsAttempted ==
  pc = "frames" /\ j >= 2 =>
    \A n \in DOMAIN frames_to_capture :
      \E m \in DOMAIN tasks :
        tasks[m] = [ref |-> frame_numbers[j - 1],
                    src |-> frames_to_capture[n], video |-> i]

\* C22: every frame index the engine requests lies in [0, totalFrames) of
\* its source, for every offset (those that make the base frame negative
\* included), every rate and every tolerance: candidates outside the domain
\* are filtered, never requested.
C22_RequestsStayInDomain ==
  probe.op = "aligned" =>
    \A n \in DOMAIN probe.out :
      0 <= probe.out[n] /\ probe.out[n] < probe.total_frames

\* C22 witness: a negative base frame whose window reaches into the domain,
\* and a window reaching past the last frame.
C22_Witness ==
  /\ probe.op = "aligned"
  /\ probe.status = "ok"
  /\ probe.out # <<>>
  /\ \/ probe.base_frame < 0
     \/ probe.base_frame + probe.tolerance >= probe.total_frames

\* C23: history entries are never mutated after creation: a step of a fresh
\* run or of a replay leaves the name and the frame list of every entry as
\* they were, an entry stored in the project's configuration comes back from
\* a load with the stored name and frame list whatever the folder scan adds,
\* and a replay run appends no entry.
C23_EntriesAreNeverMutated ==
  [][ /\ (~ShowProjectSelector =>
             \A n \in DOMAIN screenshot_history :
               /\ n \in DOMAIN screenshot_history'
               /\ screenshot_history'[n].name = screenshot_history[n].name
               /\ screenshot_history'[n].frames = screenshot_history[n].frames)
      /\ (ShowProjectSelector =>
             \A n \in DOMAIN config.screenshot_history :
               /\ n \in DOMAIN screenshot_history'
               /\ screenshot_history'[n].name
                    = config.screenshot_history[n].name
               /\ screenshot_history'[n].frames
                    = config.screenshot_history[n].frames)
      /\ (config' # config =>
             config'.screenshot_history = screenshot_history)
      /\ (gui_frame_numbers # NoneFrames \/ gui_frame_numbers' # NoneFrames =>
             Len(screenshot_history') = Len(screenshot_history)) ]_vars

\* C23 witness: a finished replay with extracted frames, over a history
\* holding a recorded run and an entry of the folder scan.
C23_Witness ==
  /\ pc = "done"
  /\ gui_frame_numbers # NoneFrames
  /\ tasks # <<>>
  /\ \E n \in DOMAIN screenshot_history : screenshot_history[n].source = "run"
  /\ \E n \in DOMAIN screenshot_history :
       screenshot_history[n].source = "folder"

\* The requests one source answers for a frame set, from the source's own
\* row alone: its rates, offset, tolerance, frame count and the frames its
\* decoder fails on.
RECURSIVE SourceTasks(_, _)
SourceTasks(frames, v) ==
  LET own_fps == IF v.video_fps # EmptyFps THEN v.video_fps ELSE v.clip_fps
  IN IF frames = <<>> \/ ~v.openable \/ own_fps[2] = 0
          \/ v.screenshot_fps[1] = 0
     THEN <<>>
     ELSE LET base == BaseFrame(Head(frames), Ratio(own_fps, v.screenshot_fps),
                                v.offset)
              window == FramesToCapture(base, v.tolerance, v.num_frames)
              requested == Requested(window, v.corrupt)
          IN [n \in DOMAIN requested |->
                [ref |-> Head(frames), src |-> requested[n]]]
               \o SourceTasks(Tail(frames), v)

\* The requests of the run made of source n, in order.
TasksOf(n) ==
  LET mine == SelectSeq(tasks, LAMBDA t : t.video = n)
  IN [m \in DOMAIN mine |-> [ref |-> mine[m].ref, src |-> mine[m].src]]

\* C24: sources are independent: for the frame set of a finished run, the
\* sequence of requests made of each source is a function of the frame set
\* and of that source's own row, whatever other sources stand before or
\* after it in the list and whether they open or fail.
C24_SourcesAreIndependent ==
  pc = "done" /\ ret # NoneFrames =>
    \A n \in DOMAIN videos : TasksOf(n) = SourceTasks(ret, videos[n])

\* C24 witness: a finished run of two different sources, the second one
\* with requests, and one of a source standing behind a source that failed.
C24_Witness ==
  /\ pc = "done"
  /\ ret # NoneFrames
  /\ Len(videos) = 2
  /\ videos[1] # videos[2]
  /\ TasksOf(2) # <<>>
  /\ \/ TasksOf(1) # <<>>
     \/ ~videos[1].openable

\* The request budget of a run: |FrameSet| * (2 * tolerance + 1) summed over
\* the first n sources.
RECURSIVE RequestBudget(_, _)
RequestBudget(frames, n) ==
  IF n = 0 THEN 0
  ELSE Len(frames) * (2 * videos[n].tolerance + 1) + RequestBudget(frames, n - 1)

\* C25: a call of the engine ends by returning the frame numbers used (the
\* supplied list in a replay, the generated list in a fresh generation, the
\* empty list when generation fails), never otherwise, and makes at most
\* |FrameSet| * (2 * tolerance + 1) requests per source.
C25_EngineReturnsTheFramesUsed ==
  /\ pc # "raised"
  /\ (pc = "done" =>
       /\ ret # NoneFrames
       /\ (gui_frame_numbers # NoneFrames => ret = gui_frame_numbers)
       /\ (gui_frame_numbers = NoneFrames =>
            ret = IF frame_numbers = NoneFrames THEN <<>> ELSE frame_numbers)
       /\ Len(tasks) <= RequestBudget(ret, Len(videos)))

\* C26: in the older entry points every index requested from the decoder,
\* frame + video.offset, lies in [0, total_frames) for every integer offset;
\* an index outside the domain is skipped, not requested.
C26_LegacyRequestsStayInDomain ==
  probe.op = "legacy_requested" =>
    \A n \in DOMAIN probe.out :
      0 <= probe.out[n] /\ probe.out[n] < probe.total_frames

\* C27: whenever start_screenshot runs with the history selector on a value
\* other than the "new" item, exactly one entry of the current history has
\* that name and the run replays that entry's frames, with no sampling;
\* this after any sequence of runs, project loads and folder scans.
C27_SelectedNameResolves ==
  [][ StartScreenshot /\ history_combo # NewName =>
        /\ Cardinality({n \in DOMAIN screenshot_history :
                          screenshot_history[n].name = history_combo}) = 1
        /\ gui_frame_numbers' # NoneFrames
        /\ \A n \in DOMAIN screenshot_history :
             screenshot_history[n].name = history_combo =>
               gui_frame_numbers' = screenshot_history[n].frames ]_vars

\* C28: the frame count shown in a history entry's name equals the number
\* of frame indices the entry stores, for entries recorded by a fresh run
\* (saturated counts and failed generations included) and for entries the
\* folder scan recovers.
C28_LabelCountIsFrameCount ==
  \A n \in DOMAIN screenshot_history :
    screenshot_history[n].name.count = Len(screenshot_history[n].frames)

\* The run folders get_project_screenshots_dir(name) designates.
ScreenshotFolders(dirs, project_name) ==
  IF project_name \in DOMAIN dirs THEN dirs[project_name] ELSE {}

\* C29: save/load round trip: for every project name, missing projects and
\* names with characters create_project replaces included, a load_project
\* that follows a save_project of the same name that returned True returns
\* a config equal to the saved one on the caller's keys.
C29_SaveLoadRoundTrip ==
  [][ (/\ pm_call.op = "save_project"
       /\ pm_call.ok
       /\ pm_call'.op = "load_project"
       /\ pm_call'.name = pm_call.name)
      => /\ pm_call'.ok
         /\ pm_call'.result.program_name = pm_call.config.program_name
         /\ pm_call'.result.screenshot_count
              = pm_call.config.screenshot_count
         /\ pm_call'.result.project_name = pm_call.name ]_vars

\* C30: a project keeps its screenshot folders across a rename: after
\* rename_project(old, new) returned True the screenshots directory of the
\* new name holds every run folder the directory of the old name held, and
\* a rename that returned False changed no directory and no config.
C30_RenameKeepsScreenshotFolders ==
  [][ pm_call'.op = "rename_project" /\ pm_call'.calls = pm_call.calls + 1 =>
        IF pm_call'.ok
        THEN ScreenshotFolders(screenshots_dir, pm_call'.name)
               \subseteq ScreenshotFolders(screenshots_dir', pm_call'.new_name)
        ELSE /\ projects_dir' = projects_dir
             /\ screenshots_dir' = screenshots_dir ]_vars

====
